---- MODULE Spec2Model ----
(***************************************************************************)
(* github_vector_cli: the vector store manager (chroma.py), the auth       *)
(* manager (auth.py) and the CLI commands (cli.py) as a state machine.     *)
(*                                                                         *)
(* Strings are TLA+ strings; Optional[str] values use the sentinel None.   *)
(* Text contents are sequences of code points, file contents sequences of  *)
(* bytes.  hashlib digests are modelled as collision-free tags of their    *)
(* input string.                                                           *)
(***************************************************************************)
EXTENDS Bags, FiniteSets, Integers, Sequences, TLC

VARIABLES store, unembeddable, users, sessions, current_user,
          github_manager, selected_repo_file, last, results, cleared

vars == <<store, unembeddable, users, sessions, current_user,
          github_manager, selected_repo_file, last, results, cleared>>

dbVars == <<store, unembeddable, results, cleared>>

authVars == <<users, sessions, current_user>>

ghVars == <<github_manager, selected_repo_file>>

(***************************************************************************)
(* Value domains                                                           *)
(***************************************************************************)
None == "<None>"

Truthy(s) == s # None /\ s # ""

MaxN == 2

Limits == 1..MaxN

Repos == {"", "a", "a_b"}

Paths == {"c", "b_c"}

FileBytes == {<<104>>, <<195, 169>>, <<255>>, <<195>>}

DecodeError == <<-1>>

IsContinuation(b) == b >= 128 /\ b <= 191

RECURSIVE Utf8Decode(_)
\* bytes.decode("utf-8") for one- and two-byte sequences; any other byte
\* pattern raises UnicodeDecodeError (DecodeError)
Utf8Decode(bytes) ==
    IF bytes = <<>> THEN <<>>
    ELSE IF bytes[1] < 128
         THEN LET rest == Utf8Decode(Tail(bytes))
              IN IF rest = DecodeError THEN DecodeError ELSE <<bytes[1]>> \o rest
    ELSE IF bytes[1] >= 194 /\ bytes[1] <= 223 /\ Len(bytes) >= 2
            /\ IsContinuation(bytes[2])
         THEN LET rest == Utf8Decode(Tail(Tail(bytes)))
              IN IF rest = DecodeError THEN DecodeError
                 ELSE <<(bytes[1] - 192) * 64 + (bytes[2] - 128)>> \o rest
    ELSE DecodeError

Texts == {Utf8Decode(b) : b \in FileBytes} \ {DecodeError}

Queries == Texts

NoDocs == [p \in {} |-> <<>>]

Mappings == UNION {[D -> Texts] : D \in SUBSET Paths}

Usernames == {"u", "v"}

Passwords == {"p", "q"}

Tokens == {"", "t1", "t2"}

\* what a repository listing can hold: a file per path of some subset of Paths
Listings == UNION {[D -> FileBytes] : D \in SUBSET Paths}

\* the repositories of the GitHub account a token gives access to
GhRepos(token) == IF token = "t1" THEN {"a"} ELSE {}

RepoNames == {"a", "zz"}

(***************************************************************************)
(* chroma.py: VectorDBManager                                              *)
(***************************************************************************)
Md5(s) == <<"md5", s>>

\* _generate_doc_id: md5 of f"{repo_name}_{path}"
GenerateDocId(repo_name, path) == Md5(repo_name \o "_" \o path)

RECURSIVE SumSeq(_)
SumSeq(s) == IF s = <<>> THEN 0 ELSE Head(s) + SumSeq(Tail(s))

\* embedding_model.encode: a deterministic function of the text
Encode(text) == SumSeq(text)

\* distance of the collection's metric between two embeddings
Distance(e1, e2) == IF e1 >= e2 THEN e1 - e2 ELSE e2 - e1

Record(repo_name, path, content) ==
    [id |-> GenerateDocId(repo_name, path), repo |-> repo_name,
     path |-> path, content |-> content, embedding |-> Encode(content)]

\* the batch store_repository builds in its loop
Batch(repo_name, documents) ==
    {Record(repo_name, p, documents[p]) : p \in DOMAIN documents}

\* encode raises for some item of the mapping
EncodeFails(documents) ==
    \E p \in DOMAIN documents : documents[p] \in unembeddable

UpsertAdd(coll, batch) == coll (+) SetToBag(batch)

\* collection.upsert: a record whose id is in the batch is replaced
Upsert(coll, batch) ==
    LET ids  == {r.id : r \in batch}
        kept == {x \in DOMAIN coll : x.id \notin ids}
    IN [x \in kept |-> coll[x]] (+) SetToBag(batch)

\* collection.delete(where={"repo": repo_name})
Delete(coll, repo_name) ==
    LET kept == {x \in DOMAIN coll : x.repo # repo_name}
    IN [x \in kept |-> coll[x]]

\* the store after store_repository(repo_name, documents): an exception in
\* the loop leaves before the upsert; an empty batch changes nothing
StoreResult(coll, repo_name, documents) ==
    IF EncodeFails(documents) \/ DOMAIN documents = {} THEN coll
    ELSE Upsert(coll, Batch(repo_name, documents))

\* the records collection.query considers in search_repository: the where
\* filter is applied only when repo_name is truthy
Where(coll, repo_name) ==
    IF Truthy(repo_name) THEN {x \in DOMAIN coll : x.repo = repo_name}
    ELSE DOMAIN coll

MinDist(E, qe) ==
    CHOOSE d \in {Distance(qe, x.embedding) : x \in E} :
        \A y \in E : d <= Distance(qe, y.embedding)

RECURSIVE Ranked(_, _)
\* every ordering of E by non-decreasing distance (ties in any order)
Ranked(E, qe) ==
    IF E = {} THEN {<<>>}
    ELSE LET nearest == {x \in E : Distance(qe, x.embedding) = MinDist(E, qe)}
         IN UNION {{<<x>> \o s : s \in Ranked(E \ {x}, qe)} : x \in nearest}

Min(a, b) == IF a <= b THEN a ELSE b

\* collection.query: the n nearest eligible records, nearest first
Query(E, qe, n) == {SubSeq(s, 1, Min(n, Len(s))) : s \in Ranked(E, qe)}

\* _format_results: one dict per hit, in the order of the hits
FormatResults(hits, qe) ==
    [i \in 1..Len(hits) |->
        [id |-> hits[i].id, repo |-> hits[i].repo, path |-> hits[i].path,
         content |-> hits[i].content,
         distance |-> Distance(qe, hits[i].embedding)]]

\* the lists search_repository can return
SearchResults(coll, query, repo_name, n) ==
    {FormatResults(h, Encode(query)) :
        h \in Query(Where(coll, repo_name), Encode(query), n)}

NoManager == [exists |-> FALSE, token |-> None, current_repo |-> None]

(***************************************************************************)
(* Observation of the last call                                            *)
(***************************************************************************)
NoCall ==
    [op |-> "none", repo |-> None, docs |-> NoDocs, query |-> <<>>, n |-> 0,
     ok |-> TRUE, repeat |-> FALSE, user |-> None, prior |-> None,
     reported |-> {}, wrote |-> FALSE, listing |-> NoDocs,
     password |-> None]

Init ==
    /\ store = EmptyBag
    /\ unembeddable \in SUBSET Texts
    /\ users = [u \in {} |-> None]
    /\ sessions = {}
    /\ current_user = None
    /\ github_manager = NoManager
    /\ selected_repo_file = None
    /\ last = NoCall
    /\ results = <<>>
    /\ cleared = {}

\* vector_db.store_repository(repo_name, documents)
StoreRepository ==
    \E repo_name \in Repos, documents \in Mappings :
        /\ store' = StoreResult(store, repo_name, documents)
        /\ cleared' = IF EncodeFails(documents) \/ DOMAIN documents = {}
                      THEN cleared ELSE cleared \ {repo_name}
        /\ results' = <<>>
        /\ last' = [NoCall EXCEPT !.op = "store", !.repo = repo_name,
                        !.docs = documents,
                        !.ok = ~EncodeFails(documents),
                        !.wrote = ~(EncodeFails(documents)
                                    \/ DOMAIN documents = {}),
                        !.repeat = (last.op = "store" /\ last.repo = repo_name
                                    /\ last.docs = documents)]
        /\ UNCHANGED <<unembeddable, authVars, ghVars>>

\* vector_db.clear_repository(repo_name)
ClearRepository ==
    \E repo_name \in Repos :
        /\ store' = Delete(store, repo_name)
        /\ cleared' = cleared \cup {repo_name}
        /\ results' = <<>>
        /\ last' = [NoCall EXCEPT !.op = "clear", !.repo = repo_name,
                        !.repeat = (last.op = "clear" /\ last.repo = repo_name)]
        /\ UNCHANGED <<unembeddable, authVars, ghVars>>

\* vector_db.search_repository(query, repo_name, n_results)
SearchRepository ==
    \E query \in Queries, repo_name \in Repos \cup {None}, n \in Limits :
        /\ query \notin unembeddable
        /\ results' \in SearchResults(store, query, repo_name, n)
        /\ last' = [NoCall EXCEPT !.op = "search", !.repo = repo_name,
                        !.query = query, !.n = n]
        /\ UNCHANGED <<store, cleared, unembeddable, authVars, ghVars>>

\* search_repository with a query text that cannot be embedded: encode raises
SearchRepositoryFails ==
    \E query \in Queries, repo_name \in Repos \cup {None}, n \in Limits :
        /\ query \in unembeddable
        /\ results' = <<>>
        /\ last' = [NoCall EXCEPT !.op = "search", !.repo = repo_name,
                        !.query = query, !.n = n, !.ok = FALSE]
        /\ UNCHANGED <<store, cleared, unembeddable, authVars, ghVars>>

NextDB ==
    \/ StoreRepository
    \/ ClearRepository
    \/ SearchRepository
    \/ SearchRepositoryFails

SpecDB == Init /\ [][NextDB]_vars

(***************************************************************************)
(* Properties of the vector store manager                                  *)
(***************************************************************************)
RecordsOf(coll, repo_name) == {x \in DOMAIN coll : x.repo = repo_name}

NoDuplicateIds(coll) ==
    /\ \A x \in DOMAIN coll : coll[x] = 1
    /\ \A x, y \in DOMAIN coll : x.id = y.id => x = y

IsSorted(res) == \A i, j \in 1..Len(res) : i <= j => res[i].distance <= res[j].distance

\* C1: a store_repository call that repeats the previous call (same repo_name,
\* same mapping) leaves the store exactly as the first call left it, and no id
\* is held by more than one record.
C1_IdempotentReindex ==
    [][(last'.op = "store" /\ last'.repeat)
         => (store' = store /\ NoDuplicateIds(store'))]_vars

C1_Witness ==
    /\ last.op = "store" /\ last.repeat /\ last.ok
    /\ DOMAIN last.docs = Paths
    /\ \A p \in Paths : Record(last.repo, p, last.docs[p]) \in DOMAIN store

\* C2: every result of a search_repository call whose scope argument is a
\* string (the empty string included) has repo equal to that scope.
C2_ScopeIsolation ==
    (last.op = "search" /\ last.repo # None)
        => \A i \in 1..Len(results) : results[i].repo = last.repo

\* C3: store_repository(B, m) and clear_repository(B) leave the records of
\* every other repository A unchanged.
C3_NoInterference ==
    [][(last'.op \in {"store", "clear"})
         => \A A \in Repos \ {last'.repo} :
               RecordsOf(store', A) = RecordsOf(store, A)]_vars

\* the records eligible for a scope as the claims define it: those whose repo
\* equals the scope when a scope is passed, all records otherwise
Eligible(coll, scope) ==
    IF scope = None THEN DOMAIN coll ELSE RecordsOf(coll, scope)

\* C4: search_repository returns exactly min(n, number of eligible records)
\* results, in non-decreasing order of distance.
C4_CapAndRanking ==
    (last.op = "search" /\ last.ok)
        => /\ Len(results) = Min(last.n, Cardinality(Eligible(store, last.repo)))
           /\ IsSorted(results)

\* C5: a search (of an embeddable query) scoped to a repository that was
\* cleared and not written since returns an empty list without error, and
\* clear_repository on a scope with no records succeeds and leaves the store
\* unchanged.
C5_ClearEmptiesScope ==
    [][/\ (last'.op = "search" /\ last'.query \notin unembeddable
             /\ last'.repo \in cleared')
            => (results' = <<>> /\ last'.ok)
       /\ (last'.op = "clear" /\ RecordsOf(store, last'.repo) = {})
            => (store' = store /\ last'.ok)]_vars

\* C6: when store_repository ends, every item of the mapping whose embedding
\* succeeds is a record of the store, whether or not another item failed.
C6_EmbeddingFailureIsSkip ==
    (last.op = "store")
        => \A p \in DOMAIN last.docs :
              last.docs[p] \notin unembeddable
                  => Record(last.repo, p, last.docs[p]) \in DOMAIN store

\* C8: a record (r, p) stays in the store, unchanged and eligible for queries
\* scoped to r, across every call except clear_repository(r) and a
\* store_repository for r whose mapping contains p.
C8_NoPruning ==
    [][\A x \in DOMAIN store :
          \/ (x \in DOMAIN store' /\ x \in Where(store', x.repo))
          \/ (last'.op = "clear" /\ last'.repo = x.repo)
          \/ (last'.op = "store" /\ last'.repo = x.repo
                /\ x.path \in DOMAIN last'.docs)]_vars

(***************************************************************************)
(* auth.py: AuthManager                                                    *)
(***************************************************************************)
Sha256(s) == <<"sha256", s>>

\* _hash_password
HashPassword(password) == Sha256(password)

RegisterUsersOverwrite(username, password) ==
    [u \in DOMAIN users \cup {username} |->
        IF u = username
        THEN [password_hash |-> HashPassword(password), github_token |-> None]
        ELSE users[u]]

\* register: the users dict register saves (unchanged when the name exists)
RegisterUsers(username, password) ==
    IF username \in DOMAIN users THEN users
    ELSE [u \in DOMAIN users \cup {username} |->
            IF u = username
            THEN [password_hash |-> HashPassword(password), github_token |-> None]
            ELSE users[u]]

\* login: username known and password hash equal
LoginOk(username, password) ==
    /\ username \in DOMAIN users
    /\ users[username].password_hash = HashPassword(password)

CreateSessionMerge(username) == sessions \cup {username}

\* _create_session: the keys of the dict written to sessions.json
CreateSession(username) == {username}

\* _clear_session
ClearSession == {}

\* set_github_token: the users dict after the call
SetTokenUsers(username, token) ==
    IF username \in DOMAIN users
    THEN [users EXCEPT ![username].github_token = token]
    ELSE users

\* get_github_token: users.get(username, {}).get("github_token")
GetGithubToken(username) ==
    IF username \in DOMAIN users THEN users[username].github_token ELSE None

\* get_current_user: the first key of sessions.json, or None
GetCurrentUser ==
    IF sessions = {} THEN None ELSE CHOOSE u \in sessions : TRUE

\* auth_manager.register(username, password)
AuthRegister ==
    \E username \in Usernames, password \in Passwords :
        /\ users' = RegisterUsers(username, password)
        /\ last' = [NoCall EXCEPT !.op = "register", !.user = username,
                        !.ok = (username \notin DOMAIN users)]
        /\ UNCHANGED <<sessions, current_user, ghVars, dbVars>>

\* auth_manager.login(username, password)
AuthLogin ==
    \E username \in Usernames, password \in Passwords :
        /\ IF LoginOk(username, password)
           THEN /\ current_user' = username
                /\ sessions' = CreateSession(username)
           ELSE UNCHANGED <<current_user, sessions>>
        /\ last' = [NoCall EXCEPT !.op = "login", !.user = username,
                        !.password = password,
                        !.prior = GetCurrentUser,
                        !.ok = LoginOk(username, password)]
        /\ UNCHANGED <<users, ghVars, dbVars>>

\* auth_manager.logout()
AuthLogout ==
    /\ current_user' = None
    /\ sessions' = ClearSession
    /\ last' = [NoCall EXCEPT !.op = "logout"]
    /\ UNCHANGED <<users, ghVars, dbVars>>

\* auth_manager.set_github_token(username, token)
AuthSetGithubToken ==
    \E username \in Usernames, token \in Tokens :
        /\ users' = SetTokenUsers(username, token)
        /\ last' = [NoCall EXCEPT !.op = "set_token", !.user = username,
                        !.ok = (username \in DOMAIN users)]
        /\ UNCHANGED <<sessions, current_user, ghVars, dbVars>>

NextAuth ==
    \/ AuthRegister
    \/ AuthLogin
    \/ AuthLogout
    \/ AuthSetGithubToken

SpecAuth == Init /\ [][NextAuth]_vars

\* C10: the session file holds at most one username and it is a registered
\* user; after a successful login it holds exactly the user who logged in,
\* and after logout it holds none.
C10_SessionInvariant ==
    /\ Cardinality(sessions) <= 1
    /\ sessions \subseteq DOMAIN users
    /\ (last.op = "login" /\ last.ok) => sessions = {last.user}
    /\ (last.op = "logout") => sessions = {}

C10_Witness ==
    /\ last.op = "login" /\ last.ok
    /\ last.prior \notin {None, last.user}
    /\ sessions = {last.user}

\* C11: register with an existing username returns False and leaves that
\* user's password hash and token unchanged; login with an unknown username or
\* a wrong password returns False and leaves the users file and the session
\* unchanged; set_github_token for an unregistered username creates no entry.
C11_FailedAuthChangesNothing ==
    [][/\ (last'.op = "register" /\ last'.user \in DOMAIN users)
            => /\ ~last'.ok
               /\ last'.user \in DOMAIN users'
               /\ users'[last'.user] = users[last'.user]
       /\ (last'.op = "login"
             /\ (\/ last'.user \notin DOMAIN users
                 \/ users[last'.user].password_hash # Sha256(last'.password)))
            => (~last'.ok /\ users' = users /\ sessions' = sessions)
       /\ (last'.op = "set_token" /\ last'.user \notin DOMAIN users)
            => DOMAIN users' = DOMAIN users]_vars

C11_Witness ==
    /\ last.op = "login" /\ ~last.ok
    /\ last.user \in DOMAIN users
    /\ users[last.user].password_hash # Sha256(last.password)
    /\ users[last.user].github_token \in Tokens
    /\ sessions # {}


(***************************************************************************)
(* github.py: GitHubManager, and cli.py: the commands                      *)
(***************************************************************************)
\* GitHubManager(token): gh is set for a truthy token; _load_selected_repo
\* fetches the repository named in selected_repo.json, removes the file on
\* GithubException, and lets any other exception of the fetch propagate
GitHubManagerInit(token) ==
    IF Truthy(token) /\ selected_repo_file # None
    THEN {[raised |-> TRUE, manager |-> NoManager, file |-> selected_repo_file],
          IF selected_repo_file \in GhRepos(token)
          THEN [raised |-> FALSE,
                manager |-> [exists |-> TRUE, token |-> token,
                             current_repo |-> selected_repo_file],
                file |-> selected_repo_file]
          ELSE [raised |-> FALSE,
                manager |-> [exists |-> TRUE, token |-> token,
                             current_repo |-> None],
                file |-> None]}
    ELSE {[raised |-> FALSE,
           manager |-> [exists |-> TRUE, token |-> token, current_repo |-> None],
           file |-> selected_repo_file]}

Raised == [raised |-> TRUE, manager |-> NoManager, file |-> selected_repo_file]

\* get_github_manager: the cached manager, or a new one for the session
\* user's token; BadParameter without a session user or without a token
GetGithubManager ==
    IF github_manager.exists
    THEN {[raised |-> FALSE, manager |-> github_manager,
           file |-> selected_repo_file]}
    ELSE IF ~Truthy(GetCurrentUser) THEN {Raised}
    ELSE IF ~Truthy(GetGithubToken(GetCurrentUser)) THEN {Raised}
    ELSE GitHubManagerInit(GetGithubToken(GetCurrentUser))

ManagerAfterLogoutKept == github_manager

\* logout: github_manager = None
ManagerAfterLogout == NoManager

IndexDocumentsAbort(listing) ==
    IF \E p \in DOMAIN listing : Utf8Decode(listing[p]) = DecodeError
    THEN NoDocs
    ELSE [p \in DOMAIN listing |-> Utf8Decode(listing[p])]

\* index_repo: the documents dict built by the loop over the contents
IndexDocuments(listing) ==
    [p \in {q \in DOMAIN listing : Utf8Decode(listing[q]) # DecodeError} |->
        Utf8Decode(listing[p])]

\* index_repo: the paths printed with an error by the loop
IndexReported(listing) ==
    {p \in DOMAIN listing : Utf8Decode(listing[p]) = DecodeError}

\* register command
CliRegister ==
    \E username \in Usernames, password \in Passwords :
        /\ users' = RegisterUsers(username, password)
        /\ last' = [NoCall EXCEPT !.op = "register", !.user = username,
                        !.ok = (username \notin DOMAIN users)]
        /\ UNCHANGED <<sessions, current_user, ghVars, dbVars>>

\* login command: on success the manager is reset, then rebuilt from the
\* user's token when there is one
CliLogin ==
    \E username \in Usernames, password \in Passwords :
        /\ IF LoginOk(username, password)
           THEN /\ current_user' = username
                /\ sessions' = CreateSession(username)
                /\ IF Truthy(GetGithubToken(username))
                   THEN \E o \in GitHubManagerInit(GetGithubToken(username)) :
                            /\ github_manager' = o.manager
                            /\ selected_repo_file' = o.file
                   ELSE /\ github_manager' = NoManager
                        /\ UNCHANGED selected_repo_file
           ELSE UNCHANGED <<current_user, sessions, ghVars>>
        /\ last' = [NoCall EXCEPT !.op = "login", !.user = username,
                        !.ok = LoginOk(username, password)]
        /\ UNCHANGED <<users, dbVars>>

\* logout command
CliLogout ==
    /\ current_user' = None
    /\ sessions' = ClearSession
    /\ github_manager' = ManagerAfterLogout
    /\ last' = [NoCall EXCEPT !.op = "logout"]
    /\ UNCHANGED <<users, selected_repo_file, dbVars>>

\* set-github-token command
CliSetGithubToken ==
    \E token \in Tokens :
        /\ IF ~Truthy(GetCurrentUser)
           THEN UNCHANGED <<users, ghVars>>
           ELSE /\ users' = SetTokenUsers(GetCurrentUser, token)
                /\ \E o \in GitHubManagerInit(token) :
                      IF o.raised THEN UNCHANGED ghVars
                      ELSE /\ github_manager' = o.manager
                           /\ selected_repo_file' = o.file
        /\ last' = [NoCall EXCEPT !.op = "set_token", !.user = GetCurrentUser,
                        !.ok = Truthy(GetCurrentUser)]
        /\ UNCHANGED <<sessions, current_user, dbVars>>

\* select-repo command
CliSelectRepo ==
    \E repo_name \in RepoNames, o \in GetGithubManager :
        /\ IF o.raised
           THEN UNCHANGED ghVars
           ELSE IF Truthy(o.manager.token) /\ repo_name \in GhRepos(o.manager.token)
           THEN /\ github_manager' = [o.manager EXCEPT !.current_repo = repo_name]
                /\ selected_repo_file' = repo_name
           ELSE /\ github_manager' = o.manager
                /\ selected_repo_file' = o.file
        /\ last' = [NoCall EXCEPT !.op = "select", !.repo = repo_name,
                        !.ok = (~o.raised /\ Truthy(o.manager.token)
                                /\ repo_name \in GhRepos(o.manager.token))]
        /\ UNCHANGED <<authVars, dbVars>>

\* index-repo command
CliIndexRepo ==
    \E o \in GetGithubManager, listing \in Listings :
        IF o.raised \/ o.manager.current_repo = None
        THEN /\ IF o.raised THEN UNCHANGED ghVars
                ELSE /\ github_manager' = o.manager
                     /\ selected_repo_file' = o.file
             /\ last' = [NoCall EXCEPT !.op = "index", !.ok = FALSE]
             /\ UNCHANGED <<authVars, dbVars>>
        ELSE LET repo_name == o.manager.current_repo
                 documents == IndexDocuments(listing)
             IN /\ github_manager' = o.manager
                /\ selected_repo_file' = o.file
                /\ store' = StoreResult(store, repo_name, documents)
                /\ cleared' = IF EncodeFails(documents) \/ DOMAIN documents = {}
                              THEN cleared ELSE cleared \ {repo_name}
                /\ results' = <<>>
                /\ last' = [NoCall EXCEPT !.op = "index", !.repo = repo_name,
                                !.listing = listing, !.docs = documents,
                                !.reported = IndexReported(listing),
                                !.ok = ~EncodeFails(documents),
                                !.wrote = ~(EncodeFails(documents)
                                            \/ DOMAIN documents = {})]
                /\ UNCHANGED <<authVars, unembeddable>>

\* main: a new process starts; the manager is rebuilt from the session
Main ==
    /\ current_user' = None
    /\ IF Truthy(GetCurrentUser) /\ Truthy(GetGithubToken(GetCurrentUser))
       THEN \E o \in GitHubManagerInit(GetGithubToken(GetCurrentUser)) :
                /\ github_manager' = o.manager
                /\ selected_repo_file' = o.file
       ELSE /\ github_manager' = NoManager
            /\ UNCHANGED selected_repo_file
    /\ last' = [NoCall EXCEPT !.op = "main"]
    /\ UNCHANGED <<users, sessions, dbVars>>

NextCLI ==
    \/ CliRegister
    \/ CliLogin
    \/ CliLogout
    \/ CliSetGithubToken
    \/ CliSelectRepo
    \/ CliIndexRepo
    \/ Main

SpecCLI == Init /\ [][NextCLI]_vars

Decodes(bytes) == Utf8Decode(bytes) # DecodeError

\* C7: when index_repo reaches its loop, the documents passed to
\* store_repository are exactly the files that decode, each under its path
\* with its decoded text, the undecodable files are reported by path, and the
\* records of the documents are in the store when the upsert ran.
C7_DecodeFailureIsSkip ==
    (last.op = "index" /\ last.repo # None)
        => /\ DOMAIN last.docs = {p \in DOMAIN last.listing : Decodes(last.listing[p])}
           /\ \A p \in DOMAIN last.docs : last.docs[p] = Utf8Decode(last.listing[p])
           /\ last.reported = {p \in DOMAIN last.listing : ~Decodes(last.listing[p])}
           /\ last.wrote
                => \A p \in DOMAIN last.docs :
                      Record(last.repo, p, last.docs[p]) \in DOMAIN store

C7_Witness ==
    /\ last.op = "index" /\ last.repo # None /\ last.wrote
    /\ last.reported # {}
    /\ \E p \in DOMAIN last.docs :
          Record(last.repo, p, Utf8Decode(last.listing[p])) \in DOMAIN store

\* the three preconditions of index-repo, in the state the command starts in
\* (the repository being the one the manager of the command holds)
HasSessionUser == Truthy(GetCurrentUser)

HasToken == HasSessionUser /\ Truthy(GetGithubToken(GetCurrentUser))

\* C9: index-repo writes to the vector store only when a session user exists,
\* that user has a stored token and a repository is selected; when one of the
\* three is missing it reports an error and leaves the store, the users file
\* and the session file unchanged.
C9_IndexPreconditions ==
    [][(last'.op = "index")
         => LET selected == github_manager'.exists
                            /\ github_manager'.current_repo # None
                pre == HasSessionUser /\ HasToken /\ selected
            IN /\ (last'.wrote \/ store' # store) => pre
               /\ ~pre => (~last'.ok /\ store' = store /\ users' = users
                           /\ sessions' = sessions)]_vars

C9_Witness ==
    /\ last.op = "index" /\ last.wrote
    /\ HasToken
    /\ github_manager.current_repo = last.repo
    /\ RecordsOf(store, last.repo) # {}

====
